---- MODULE Spec2Model ----
(***************************************************************************)
(* PyQtMessageBar (src/pyqtmessagebar/__init__.py): a status bar that      *)
(* buffers every message it shows, serialises timed messages through a    *)
(* wait queue drained by one-shot timers, and lets the user browse and    *)
(* delete the buffered messages with the keyboard.                        *)
(*                                                                         *)
(* Every handler of the widget runs to completion on the Qt event loop,   *)
(* so each handler is one atomic action.  A handler is written as an      *)
(* operator from a state record to a state record, composed exactly as    *)
(* the methods call each other.                                           *)
(*                                                                         *)
(* Time is kept in milliseconds.  QTimer.singleShot() is a static call:   *)
(* the timer it starts cannot be stopped, so the pending one-shot timers  *)
(* are a sequence of their own (singleShots), separate from the _timer    *)
(* attribute, which only says whether the handle is None.                 *)
(***************************************************************************)
EXTENDS Integers, Sequences, FiniteSets, TLC

----------------------------------------------------------------------------
(* Bounds of the model *)

\* number of showMessage() calls in one behaviour
MaxSubmits == 3

\* number of showMessage() calls in one behaviour of the fair specification
MaxLiveSubmits == 2

\* msg_buffer_size handed to the constructor
BufferSize == 2

\* longest buffer the keyboard is tried on; a whole page fits in it
MaxNavLen == 12

\* longest buffer that is saved; its length has two digits
MaxSaveLen == 10

\* number of presses of an S key in one behaviour
MaxSaves == 2

\* timeouts (ms) handed to showMessage(): none, and one long enough for the
\* countdown progress bar
Timeouts == {0, 3000}

\* amounts (ms) by which the clock advances in one step; every timer
\* duration of the model is a multiple of it.  Handlers may run in any
\* number and order between two steps of the clock.
TickSteps == {1500}

----------------------------------------------------------------------------
(* Program constants *)

DEFAULT_BUFFER_SIZE == 100
DEFAULT_PAGE_SIZE == 10
ZERO_TIMEOUT_MS == 1500
PROGRESSBAR_MIN_MS == 2000

\* the constructor is given a WaitQueueEmptiedSignal object
timer_wait_q_emptied_signal == TRUE

----------------------------------------------------------------------------
VARIABLES
    bufferd_msgs,              \* _bufferd_msgs: list of (msg, timeout, timestamp)
    displayed_msg_idx,         \* _displayed_msg_idx
    widget,                    \* _widget: the QLabel being displayed, or NoWidget
    timer,                     \* _timer is not None
    timer_wait_q,              \* _timer_wait_q: FIFO of (msg, timeout)
    timer_progressbar_update,  \* _timer_progressbar_update: "None", "Active", "Stopped"
    singleShots,               \* one-shot timers started and not yet fired
    now,                       \* the clock, ms
    submitted,                 \* number of showMessage() calls so far
    admitLog,                  \* history: one record per _buffer_entry() call
    emptiedLog,                \* history: one record per emptied.emit()
    fault,                     \* the handler that ran last raised an exception
    save_msg_buffer_dir,       \* _save_msg_buffer_dir is set
    saveLog                    \* history: one record per press of an S key

vars == << bufferd_msgs, displayed_msg_idx, widget, timer, timer_wait_q,
           timer_progressbar_update, singleShots, now,
           submitted, admitLog, emptiedLog, fault,
           save_msg_buffer_dir, saveLog >>

\* _widget = None
NoWidget == [text |-> << >>, site |-> "None"]

\* the state as one record, the form the handlers work on; a handler starts
\* with no exception raised
State ==
    [ bufferd_msgs |-> bufferd_msgs,
      displayed_msg_idx |-> displayed_msg_idx,
      widget |-> widget,
      timer |-> timer,
      timer_wait_q |-> timer_wait_q,
      timer_progressbar_update |-> timer_progressbar_update,
      singleShots |-> singleShots,
      now |-> now,
      submitted |-> submitted,
      admitLog |-> admitLog,
      emptiedLog |-> emptiedLog,
      fault |-> FALSE,
      save_msg_buffer_dir |-> save_msg_buffer_dir,
      saveLog |-> saveLog ]

Install(s) ==
    /\ bufferd_msgs' = s.bufferd_msgs
    /\ displayed_msg_idx' = s.displayed_msg_idx
    /\ widget' = s.widget
    /\ timer' = s.timer
    /\ timer_wait_q' = s.timer_wait_q
    /\ timer_progressbar_update' = s.timer_progressbar_update
    /\ singleShots' = s.singleShots
    /\ now' = s.now
    /\ submitted' = s.submitted
    /\ admitLog' = s.admitLog
    /\ emptiedLog' = s.emptiedLog
    /\ fault' = s.fault
    /\ save_msg_buffer_dir' = s.save_msg_buffer_dir
    /\ saveLog' = s.saveLog

----------------------------------------------------------------------------
(* Helpers *)

\* msg = ' ' + msg
Pad(text) == << " ", text >>

\* now.strftime("%Y-%m-%d %H:%M:%S"): the clock cut to whole seconds
Strftime(t) == t \div 1000

\* list.pop(i) / list[i] accept i in -len..len-1
PyIndexOk(i, len) == (-len <= i) /\ (i < len)
PyIndex(i, len) == IF i < 0 THEN i + len ELSE i

RemoveAt(seq, k) == SubSeq(seq, 1, k - 1) \o SubSeq(seq, k + 1, Len(seq))

\* one statement after another: F applied to the state v that the statements
\* before it leave, v being worked out once
Then(v, F(_)) == CHOOSE r \in {F(x) : x \in {v}} : TRUE

----------------------------------------------------------------------------
(* Handlers *)

clearMessage(s) ==
    IF s.widget # NoWidget
    THEN [s EXCEPT !.widget = NoWidget]
    ELSE s

\* (mutant of Evict: the oldest entry is never thrown away)
Evict_Never(s) == s.bufferd_msgs

\* (mutant of Evict: the oldest entry is thrown away one admission early)
Evict_OneEarly(s) ==
    IF s.displayed_msg_idx >= BufferSize - 2
    THEN Tail(s.bufferd_msgs)
    ELSE s.bufferd_msgs

\* the buffer after the eviction test of _buffer_entry
Evict(s) ==
    IF s.displayed_msg_idx >= BufferSize - 1
    THEN Tail(s.bufferd_msgs)
    ELSE s.bufferd_msgs

\* (mutant of buffer_entry: the entry is put first, not last)
buffer_entry_Prepend(s, entry, via) ==
    LET stamped == [msg |-> entry.msg, timeout |-> entry.timeout,
                    timestamp |-> Strftime(s.now)]
    IN [s EXCEPT
          !.bufferd_msgs = << stamped >> \o Evict(s),
          !.displayed_msg_idx = s.displayed_msg_idx + 1,
          !.admitLog = Append(s.admitLog,
                              [msg |-> entry.msg, timeout |-> entry.timeout,
                               via |-> via])]

\* entry is (msg, timeout); via is the caller, kept in the history only
buffer_entry(s, entry, via) ==
    LET stamped == [msg |-> entry.msg, timeout |-> entry.timeout,
                    timestamp |-> Strftime(s.now)]
    IN [s EXCEPT
          !.bufferd_msgs = Append(Evict(s), stamped),
          !.displayed_msg_idx = s.displayed_msg_idx + 1,
          !.admitLog = Append(s.admitLog,
                              [msg |-> entry.msg, timeout |-> entry.timeout,
                               via |-> via])]

\* (mutant of StartTimers: the handle of a timed message is set but its
\* one-shot timer is not started)
StartTimers_NoSingleShot(s, entry) ==
    IF entry.timeout > 0
    THEN IF ~s.timer
         THEN [s EXCEPT !.timer = TRUE]
         ELSE [s EXCEPT !.timer_wait_q = Append(s.timer_wait_q, entry)]
    ELSE [s EXCEPT
            !.singleShots = Append(s.singleShots,
                [timed_msg |-> FALSE, remaining |-> ZERO_TIMEOUT_MS,
                 duration |-> ZERO_TIMEOUT_MS, owner |-> entry.msg])]

\* (mutant of StartTimers: a message without timeout starts no timer)
StartTimers_NoZeroTimer(s, entry) ==
    IF entry.timeout > 0
    THEN IF ~s.timer
         THEN [s EXCEPT
                 !.timer_progressbar_update =
                     IF entry.timeout > PROGRESSBAR_MIN_MS
                     THEN "Active" ELSE s.timer_progressbar_update,
                 !.timer = TRUE,
                 !.singleShots = Append(s.singleShots,
                     [timed_msg |-> TRUE, remaining |-> entry.timeout,
                      duration |-> entry.timeout, owner |-> entry.msg])]
         ELSE [s EXCEPT !.timer_wait_q = Append(s.timer_wait_q, entry)]
    ELSE s

\* the timers and the wait queue after the timeout test of _buffer_this_entry
StartTimers(s, entry) ==
    IF entry.timeout > 0
    THEN IF ~s.timer
         THEN [s EXCEPT
                 !.timer_progressbar_update =
                     IF entry.timeout > PROGRESSBAR_MIN_MS
                     THEN "Active" ELSE s.timer_progressbar_update,
                 !.timer = TRUE,
                 !.singleShots = Append(s.singleShots,
                     [timed_msg |-> TRUE, remaining |-> entry.timeout,
                      duration |-> entry.timeout, owner |-> entry.msg])]
         ELSE [s EXCEPT !.timer_wait_q = Append(s.timer_wait_q, entry)]
    ELSE [s EXCEPT
            !.singleShots = Append(s.singleShots,
                [timed_msg |-> FALSE, remaining |-> ZERO_TIMEOUT_MS,
                 duration |-> ZERO_TIMEOUT_MS, owner |-> entry.msg])]

buffer_this_entry(s, entry, via) ==
    LET s1 == [clearMessage(s) EXCEPT
                  !.widget = [text |-> entry.msg, site |-> "admit"]]
    IN Then(Then(s1, LAMBDA x : StartTimers(x, entry)),
            LAMBDA x : buffer_entry(x, entry, via))

enqueue_to_wait_q(s, entry) ==
    [s EXCEPT !.timer_wait_q = Append(s.timer_wait_q, entry)]

\* (mutant of MustWait: a displayed timed message never makes a call wait)
MustWait_Never(s) == FALSE

\* a message is displayed and its timer handle is set
MustWait(s) == s.widget # NoWidget /\ s.timer

\* (mutant of showMessage: the wait queue is not looked at when nothing
\* has to be waited for)
showMessage_NoQueueTest(s, text, timeout) ==
    LET entry == [msg |-> Pad(text), timeout |-> timeout]
    IN IF MustWait(s)
       THEN enqueue_to_wait_q(s, entry)
       ELSE buffer_this_entry(s, entry, "submit")

showMessage(s, text, timeout) ==
    LET entry == [msg |-> Pad(text), timeout |-> timeout]
    IN IF MustWait(s)
       THEN enqueue_to_wait_q(s, entry)
       ELSE IF s.timer_wait_q = << >>
            THEN buffer_this_entry(s, entry, "submit")
            ELSE enqueue_to_wait_q(s, entry)

\* WaitQueueEmptiedSignal.empty(): the slot runs inside the emit and sees
\* the state of that moment
EmitEmptied(s) ==
    [s EXCEPT !.emptiedLog = Append(s.emptiedLog,
                 [text |-> s.widget.text,
                  admitted |-> Len(s.admitLog),
                  depth |-> Len(s.timer_wait_q)])]

\* (mutant of Dequeue: the newest entry is taken)
Dequeue_Newest(q) ==
    [entry |-> q[Len(q)], rest |-> SubSeq(q, 1, Len(q) - 1)]

\* the oldest entry of the wait queue and the queue without it
Dequeue(q) == [entry |-> Head(q), rest |-> Tail(q)]

\* (mutant of Drain: the signal is emitted at every drain)
Drain_EmitAlways(s) ==
    LET d == Dequeue(s.timer_wait_q)
        s2 == buffer_this_entry([s EXCEPT !.timer_wait_q = d.rest],
                                d.entry, "drain")
    IN Then(s2, LAMBDA x : EmitEmptied(x))

\* (mutant of Drain: the entry taken stays on the wait queue)
Drain_KeepsEntry(s) ==
    LET d == Dequeue(s.timer_wait_q)
        s2 == buffer_this_entry(s, d.entry, "drain")
    IN Then(s2, LAMBDA x :
                  IF x.timer_wait_q = << >> /\ timer_wait_q_emptied_signal
                  THEN EmitEmptied(x)
                  ELSE x)

\* _msg_timeout_fired with a non-empty wait queue
Drain(s) ==
    LET d == Dequeue(s.timer_wait_q)
        s2 == buffer_this_entry([s EXCEPT !.timer_wait_q = d.rest],
                                d.entry, "drain")
    IN Then(s2, LAMBDA x :
                  IF x.timer_wait_q = << >> /\ timer_wait_q_emptied_signal
                  THEN EmitEmptied(x)
                  ELSE x)

\* (mutant of Expire: the display is never cleared)
Expire_Never(s, timed_msg) == s

\* (mutant of Expire: the display is cleared whatever timer fired)
Expire_Always(s, timed_msg) == clearMessage(s)

\* _msg_timeout_fired with an empty wait queue
Expire(s, timed_msg) ==
    IF timed_msg THEN clearMessage(s) ELSE s

msg_timeout_fired(s, timed_msg) ==
    LET s1 == [s EXCEPT
                 !.timer_progressbar_update =
                     IF s.timer_progressbar_update # "None"
                     THEN "Stopped" ELSE "None",
                 !.timer = FALSE]
    IN IF s1.timer_wait_q # << >>
       THEN Drain(s1)
       ELSE Expire(s1, timed_msg)

\* (mutant of display_viewport: an entry with a timeout is displayed with a
\* one-shot timer of its own)
display_viewport_Timed(s) ==
    LET s1 == clearMessage(s)
        len == Len(s1.bufferd_msgs)
        e == s1.bufferd_msgs[PyIndex(s1.displayed_msg_idx, len) + 1]
    IN [s1 EXCEPT
          !.widget = [text |-> e.msg, site |-> "browse"],
          !.singleShots =
              IF e.timeout > 0
              THEN Append(s1.singleShots,
                      [timed_msg |-> TRUE, remaining |-> e.timeout,
                       duration |-> e.timeout, owner |-> e.msg])
              ELSE s1.singleShots]

display_viewport(s) ==
    LET s1 == clearMessage(s)
        len == Len(s1.bufferd_msgs)
        e == s1.bufferd_msgs[PyIndex(s1.displayed_msg_idx, len) + 1]
    IN [s1 EXCEPT !.widget = [text |-> e.msg, site |-> "browse"]]

\* (mutant of MoveIdx: a single step past either end stays at that end)
MoveIdx_StepStays(idx, len, delta) ==
    IF idx = 0 /\ delta = -1 * DEFAULT_PAGE_SIZE THEN len - 1
    ELSE IF idx = len - 1 /\ delta = DEFAULT_PAGE_SIZE THEN 0
    ELSE IF idx < DEFAULT_PAGE_SIZE /\ delta = -1 * DEFAULT_PAGE_SIZE THEN 0
    ELSE IF idx > len - 1 - DEFAULT_PAGE_SIZE /\ delta = DEFAULT_PAGE_SIZE
         THEN len - 1
    ELSE LET i1 == idx + delta
             i2 == IF i1 < 0 THEN 0 ELSE i1
         IN IF i2 > len - 1 THEN len - 1 ELSE i2

\* (mutant of MoveIdx: without the two clamp rules of the page keys)
MoveIdx_NoPageClamp(idx, len, delta) ==
    IF idx = 0 /\ delta = -1 * DEFAULT_PAGE_SIZE THEN len - 1
    ELSE IF idx = len - 1 /\ delta = DEFAULT_PAGE_SIZE THEN 0
    ELSE LET i1 == idx + delta
             i2 == IF i1 < 0 THEN len - 1 ELSE i1
         IN IF i2 > len - 1 THEN 0 ELSE i2

\* (mutant of MoveIdx: without the two wrap rules of the page keys)
MoveIdx_NoPageWrap(idx, len, delta) ==
    IF idx < DEFAULT_PAGE_SIZE /\ delta = -1 * DEFAULT_PAGE_SIZE THEN 0
    ELSE IF idx > len - 1 - DEFAULT_PAGE_SIZE /\ delta = DEFAULT_PAGE_SIZE
         THEN len - 1
    ELSE LET i1 == idx + delta
             i2 == IF i1 < 0 THEN len - 1 ELSE i1
         IN IF i2 > len - 1 THEN 0 ELSE i2

\* (mutant of MoveIdx: a step past the end lands on Python's index -1)
MoveIdx_EndWrapsToLast(idx, len, delta) ==
    IF idx = 0 /\ delta = -1 * DEFAULT_PAGE_SIZE THEN len - 1
    ELSE IF idx = len - 1 /\ delta = DEFAULT_PAGE_SIZE THEN 0
    ELSE IF idx < DEFAULT_PAGE_SIZE /\ delta = -1 * DEFAULT_PAGE_SIZE THEN 0
    ELSE IF idx > len - 1 - DEFAULT_PAGE_SIZE /\ delta = DEFAULT_PAGE_SIZE
         THEN len - 1
    ELSE LET i1 == idx + delta
             i2 == IF i1 < 0 THEN len - 1 ELSE i1
         IN IF i2 > len - 1 THEN -1 ELSE i2

\* the new _displayed_msg_idx of _move_viewport on a non-empty buffer
MoveIdx(idx, len, delta) ==
    IF idx = 0 /\ delta = -1 * DEFAULT_PAGE_SIZE THEN len - 1
    ELSE IF idx = len - 1 /\ delta = DEFAULT_PAGE_SIZE THEN 0
    ELSE IF idx < DEFAULT_PAGE_SIZE /\ delta = -1 * DEFAULT_PAGE_SIZE THEN 0
    ELSE IF idx > len - 1 - DEFAULT_PAGE_SIZE /\ delta = DEFAULT_PAGE_SIZE
         THEN len - 1
    ELSE LET i1 == idx + delta
             i2 == IF i1 < 0 THEN len - 1 ELSE i1
         IN IF i2 > len - 1 THEN 0 ELSE i2

\* (mutant of move_viewport: the cursor is left alone on an empty buffer)
move_viewport_NoEmptyReset(s, delta) ==
    IF Len(s.bufferd_msgs) = 0
    THEN s
    ELSE display_viewport(
            [s EXCEPT !.displayed_msg_idx =
                MoveIdx(s.displayed_msg_idx, Len(s.bufferd_msgs), delta)])

move_viewport(s, delta) ==
    IF Len(s.bufferd_msgs) = 0
    THEN [s EXCEPT !.displayed_msg_idx = -1]
    ELSE display_viewport(
            [s EXCEPT !.displayed_msg_idx =
                MoveIdx(s.displayed_msg_idx, Len(s.bufferd_msgs), delta)])

\* keyPressEvent for the keys of KEY_MOVE
KeyMoves == {"Up", "Down", "PageUp", "PageDown", "Home", "End"}

\* (mutant of keyPressMove: Key_End does not set the cursor)
keyPressMove_EndStays(s, key) ==
    CASE key = "Up" ->
            move_viewport(s, IF s.widget # NoWidget THEN -1 ELSE 0)
      [] key = "Down" -> move_viewport(s, 1)
      [] key = "PageUp" -> move_viewport(s, -1 * DEFAULT_PAGE_SIZE)
      [] key = "PageDown" -> move_viewport(s, DEFAULT_PAGE_SIZE)
      [] key = "Home" ->
            move_viewport([s EXCEPT !.displayed_msg_idx = 0], 0)
      [] key = "End" -> move_viewport(s, 0)

keyPressMove(s, key) ==
    CASE key = "Up" ->
            move_viewport(s, IF s.widget # NoWidget THEN -1 ELSE 0)
      [] key = "Down" -> move_viewport(s, 1)
      [] key = "PageUp" -> move_viewport(s, -1 * DEFAULT_PAGE_SIZE)
      [] key = "PageDown" -> move_viewport(s, DEFAULT_PAGE_SIZE)
      [] key = "Home" ->
            move_viewport([s EXCEPT !.displayed_msg_idx = 0], 0)
      [] key = "End" ->
            move_viewport([s EXCEPT !.displayed_msg_idx =
                                        Len(s.bufferd_msgs) - 1], 0)

\* (mutant of deleteAll: the wait queue is emptied too)
deleteAll_ClearsQueue(s) ==
    clearMessage([s EXCEPT !.displayed_msg_idx = -1,
                           !.bufferd_msgs = << >>,
                           !.timer_wait_q = << >>])

\* (mutant of deleteAll: the cursor is left where it was)
deleteAll_KeepsCursor(s) ==
    clearMessage([s EXCEPT !.bufferd_msgs = << >>])

\* keyPressEvent for control-alt-shift-X
deleteAll(s) ==
    clearMessage([s EXCEPT !.displayed_msg_idx = -1,
                           !.bufferd_msgs = << >>])

\* (mutant of deleteCurrent: a cursor past the shortened buffer is set to
\* its last index before the viewport is moved)
deleteCurrent_Clamps(s) ==
    LET len == Len(s.bufferd_msgs)
        idx == s.displayed_msg_idx
    IN IF PyIndexOk(idx, len)
       THEN move_viewport(
               [s EXCEPT !.bufferd_msgs =
                   RemoveAt(s.bufferd_msgs, PyIndex(idx, len) + 1),
                         !.displayed_msg_idx =
                   IF idx > len - 2 THEN len - 2 ELSE idx], 0)
       ELSE [s EXCEPT !.fault = TRUE]

\* keyPressEvent for control-alt-X; pop() raises IndexError before it
\* changes anything
deleteCurrent(s) ==
    LET len == Len(s.bufferd_msgs)
        idx == s.displayed_msg_idx
    IN IF PyIndexOk(idx, len)
       THEN move_viewport(
               [s EXCEPT !.bufferd_msgs =
                   RemoveAt(s.bufferd_msgs, PyIndex(idx, len) + 1)], 0)
       ELSE [s EXCEPT !.fault = TRUE]

\* str(n) of a natural number, as its decimal digits
RECURSIVE Digits(_)
Digits(n) == IF n < 10 THEN << n >> ELSE Append(Digits(n \div 10), n % 10)

\* "{0:0<width>d}".format(n): the digits of n, zeros in front up to width
ZeroPad(n, width) ==
    [i \in 1..(width - Len(Digits(n))) |-> 0] \o Digits(n)

\* (mutant of SaveLines: the lines are numbered from 1)
SaveLines_FromOne(buf) ==
    LET width == Len(Digits(Len(buf))) + 1
    IN [k \in 1..Len(buf) |->
          [idx |-> ZeroPad(k, width), msg |-> buf[k].msg,
           timeout |-> buf[k].timeout, timestamp |-> buf[k].timestamp]]

\* the lines _save_message_buffer_to_file writes for the buffer buf
SaveLines(buf) ==
    LET width == Len(Digits(Len(buf))) + 1
    IN [k \in 1..Len(buf) |->
          [idx |-> ZeroPad(k - 1, width), msg |-> buf[k].msg,
           timeout |-> buf[k].timeout, timestamp |-> buf[k].timestamp]]

\* a file is written; the history keeps the buffer it was written from
save_message_buffer_to_file(s) ==
    [s EXCEPT !.saveLog = Append(s.saveLog,
                 [written |-> TRUE, lines |-> SaveLines(s.bufferd_msgs),
                  buffer |-> s.bufferd_msgs])]

\* an S key that writes no file
NotSaved(s, raised) ==
    [s EXCEPT !.fault = raised,
              !.saveLog = Append(s.saveLog,
                 [written |-> FALSE, lines |-> << >>,
                  buffer |-> s.bufferd_msgs])]

\* (mutant of keyPressSave: the file is written whether or not a directory
\* is set)
keyPressSave_AnyDir(s, shift, chosen) ==
    IF shift /\ ~chosen
    THEN NotSaved(s, TRUE)
    ELSE save_message_buffer_to_file(s)

\* keyPressEvent for control-alt-S (shift = FALSE) and control-alt-shift-S
\* (shift = TRUE); chosen says whether the Save As dialog returned a file
\* name: a cancelled dialog returns '' and open('') raises
keyPressSave(s, shift, chosen) ==
    IF ~s.save_msg_buffer_dir
    THEN NotSaved(s, FALSE)
    ELSE IF shift /\ ~chosen
         THEN NotSaved(s, TRUE)
         ELSE save_message_buffer_to_file(s)

----------------------------------------------------------------------------
(* Initial state: PyQtMessageBar.__init__ *)

Init ==
    /\ bufferd_msgs = << >>
    /\ displayed_msg_idx = -1
    /\ widget = NoWidget
    /\ timer = FALSE
    /\ timer_wait_q = << >>
    /\ timer_progressbar_update = "None"
    /\ singleShots = << >>
    /\ now = 0
    /\ submitted = 0
    /\ admitLog = << >>
    /\ emptiedLog = << >>
    /\ fault = FALSE
    /\ save_msg_buffer_dir = FALSE
    /\ saveLog = << >>

----------------------------------------------------------------------------
(* Actions *)

\* a caller submits a message; texts are numbered to tell messages apart
SubmitUpTo(max) ==
    /\ submitted < max
    /\ \E timeout \in Timeouts :
          \E r \in {showMessage([State EXCEPT !.submitted = submitted + 1],
                                submitted + 1, timeout)} : Install(r)

Submit == SubmitUpTo(MaxSubmits)

SubmitLive == SubmitUpTo(MaxLiveSubmits)

\* a one-shot timer that is due calls its lambda; of two due timers of the
\* same duration the one started first fires first
TimerFired ==
    \E i \in DOMAIN singleShots :
        /\ singleShots[i].remaining = 0
        /\ \A j \in 1..(i - 1) :
              ~(singleShots[j].remaining = 0
                /\ singleShots[j].duration = singleShots[i].duration)
        /\ \E r \in {msg_timeout_fired(
                       [State EXCEPT !.singleShots = RemoveAt(singleShots, i)],
                       singleShots[i].timed_msg)} : Install(r)

\* time passes while a timer is pending; a due timer fires before the clock
\* moves on
Tick ==
    \E d \in TickSteps :
        /\ \A i \in DOMAIN singleShots : singleShots[i].remaining >= d
        /\ singleShots # << >>
        /\ now' = now + d
        /\ singleShots' = [i \in DOMAIN singleShots |->
               [singleShots[i] EXCEPT !.remaining = @ - d]]
        /\ UNCHANGED << bufferd_msgs, displayed_msg_idx, widget, timer,
                        timer_wait_q, timer_progressbar_update,
                        submitted, admitLog, emptiedLog, fault,
                        save_msg_buffer_dir, saveLog >>

\* one key of KEY_MOVE is pressed
Key(key) == \E r \in {keyPressMove(State, key)} : Install(r)

KeyMove == \E key \in KeyMoves : Key(key)

DeleteAll == \E r \in {deleteAll(State)} : Install(r)

DeleteCurrent == \E r \in {deleteCurrent(State)} : Install(r)

ClearMessage == \E r \in {clearMessage(State)} : Install(r)

Next ==
    \/ Submit
    \/ TimerFired
    \/ Tick
    \/ KeyMove
    \/ DeleteAll
    \/ DeleteCurrent
    \/ ClearMessage

Spec == Init /\ [][Next]_vars

\* only showMessage() calls and timer firings
NextST ==
    \/ Submit
    \/ TimerFired
    \/ Tick

SpecST == Init /\ [][NextST]_vars

\* the same handlers with fewer showMessage() calls
NextLive ==
    \/ SubmitLive
    \/ TimerFired
    \/ Tick
    \/ KeyMove
    \/ DeleteAll
    \/ DeleteCurrent
    \/ ClearMessage

\* the Qt event loop keeps running: time passes while a timer is pending
\* and a timer that is due fires
FairSpec ==
    Init /\ [][NextLive]_vars /\ WF_vars(Tick) /\ WF_vars(TimerFired)

\* the bar after n zero-timeout messages were shown and their timers fired,
\* in a bar whose msg_buffer_size is at least n (the default is
\* DEFAULT_BUFFER_SIZE): the last message is displayed, nothing is pending
Shown(n) ==
    /\ bufferd_msgs = [i \in 1..n |->
           [msg |-> Pad(i), timeout |-> 0, timestamp |-> Strftime(0)]]
    /\ displayed_msg_idx = n - 1
    /\ widget = IF n = 0 THEN NoWidget
                ELSE [text |-> Pad(n), site |-> "admit"]
    /\ timer = FALSE
    /\ timer_wait_q = << >>
    /\ timer_progressbar_update = "None"
    /\ singleShots = << >>
    /\ now = ZERO_TIMEOUT_MS
    /\ submitted = n
    /\ admitLog = [i \in 1..n |->
           [msg |-> Pad(i), timeout |-> 0, via |-> "submit"]]
    /\ emptiedLog = << >>
    /\ fault = FALSE
    /\ saveLog = << >>

InitNav ==
    \E n \in 0..MaxNavLen :
        /\ Shown(n)
        /\ save_msg_buffer_dir = FALSE

\* the keyboard alone: browsing and deleting in a buffer that is not refilled
NextNav ==
    \/ KeyMove
    \/ DeleteAll
    \/ DeleteCurrent
    \/ ClearMessage

SpecNav == InitNav /\ [][NextNav]_vars

\* an S key is pressed
SaveKey ==
    /\ Len(saveLog) < MaxSaves
    /\ \E shift \in BOOLEAN, chosen \in BOOLEAN :
          \E r \in {keyPressSave(State, shift, chosen)} : Install(r)

\* as InitNav, with or without a save_msg_buffer_dir given to the constructor
InitSave ==
    \E n \in 0..MaxSaveLen :
        /\ Shown(n)
        /\ save_msg_buffer_dir \in BOOLEAN

\* saving the buffer between browsing it and clearing it
NextSave ==
    \/ SaveKey
    \/ KeyMove
    \/ DeleteAll
    \/ ClearMessage

SpecSave == InitSave /\ [][NextSave]_vars

----------------------------------------------------------------------------
(* Vocabulary of the claims *)

\* a step in which _buffer_entry() ran
Admits == Len(admitLog') = Len(admitLog) + 1

\* a step that is a showMessage() call
Submits == submitted' = submitted + 1

\* the messages admitted from the wait queue, in the order of admission
Drained == SelectSeq(admitLog, LAMBDA r : r.via = "drain")

Last(seq) == seq[Len(seq)]

----------------------------------------------------------------------------
\* C1: with only showMessage() calls and timer firings the buffer never
\* holds more than BufferSize entries, and an admission into a buffer that
\* holds BufferSize entries throws away the entry at index 0, moves every
\* other entry down by one and puts the new entry last.
C1_CapacitySubmitOnly ==
    /\ [](Len(bufferd_msgs) <= BufferSize)
    /\ [][ (Admits /\ Len(bufferd_msgs) = BufferSize) =>
             /\ Len(bufferd_msgs') = BufferSize
             /\ \A i \in 1..(BufferSize - 1) :
                   bufferd_msgs'[i] = bufferd_msgs[i + 1]
             /\ bufferd_msgs'[BufferSize].msg = Last(admitLog').msg ]_vars

\* an admission has thrown away the oldest entry of a full buffer
C1_Witness ==
    /\ Len(admitLog) = BufferSize + 1
    /\ Len(bufferd_msgs) = BufferSize
    /\ bufferd_msgs[1].msg = admitLog[2].msg
    /\ bufferd_msgs[BufferSize].msg = admitLog[BufferSize + 1].msg

----------------------------------------------------------------------------
\* C2: under every interleaving of showMessage(), timer firings, the six
\* navigation keys, delete-current and delete-all the buffer never holds
\* more than BufferSize entries.
C2_CapacityAlways == Len(bufferd_msgs) <= BufferSize

----------------------------------------------------------------------------
\* C3: the entries put on the wait queue are admitted from it in the order
\* in which they were put on it.  showMessage() numbers the messages in the
\* order of the calls and every call puts its message on the queue at most
\* once, during the call; so the messages admitted from the queue, followed
\* by the messages still on it, carry strictly increasing numbers.
C3_FifoAdmission ==
    LET order == [i \in 1..Len(Drained) |-> Drained[i].msg] \o
                 [i \in 1..Len(timer_wait_q) |-> timer_wait_q[i].msg]
    IN \A i, j \in 1..Len(order) : i < j => order[i][2] < order[j][2]

\* two entries that waited behind a timed message have both been admitted
C3_Witness ==
    /\ Len(Drained) = 2
    /\ admitLog[1].timeout > 0
    /\ admitLog[1].via = "submit"
    /\ Len(admitLog) = 3

----------------------------------------------------------------------------
\* C5: at most one one-shot timer (timed expiry or zero-timeout) is pending
\* at any time.
C5_SingleTimer == Len(singleShots) <= 1

----------------------------------------------------------------------------
\* the one-shot timer i of a zero-timeout message fires while that message
\* is still the one displayed and nothing waits
ZeroFiredIdle(i) ==
    /\ singleShots[i].remaining = 0
    /\ ~singleShots[i].timed_msg
    /\ singleShots' = RemoveAt(singleShots, i)
    /\ timer_wait_q = << >>
    /\ widget = [text |-> singleShots[i].owner, site |-> "admit"]

\* C4 (as claimed): when the 1500 ms timer of a displayed zero-timeout
\* message fires and nothing was submitted since, the display is cleared.
C4_ZeroTimeoutClears ==
    [][ \A i \in DOMAIN singleShots :
          ZeroFiredIdle(i) => widget' = NoWidget ]_vars

\* C4 (amended): when the 1500 ms timer of a displayed zero-timeout message
\* fires and nothing was submitted since, the message stays displayed; the
\* firing changes neither the display, the buffer, the cursor nor the queue.
C4_ZeroTimeoutStays ==
    [][ \A i \in DOMAIN singleShots :
          ZeroFiredIdle(i) =>
             UNCHANGED << widget, bufferd_msgs, displayed_msg_idx,
                          timer_wait_q >> ]_vars

\* the only message, a zero-timeout one, is displayed after its timer fired
C4_Witness ==
    /\ submitted = 1
    /\ Len(admitLog) = 1
    /\ admitLog[1].timeout = 0
    /\ now = ZERO_TIMEOUT_MS
    /\ singleShots = << >>
    /\ widget = [text |-> Pad(1), site |-> "admit"]

----------------------------------------------------------------------------
\* C6: the emptied signal is emitted exactly once at each step that takes
\* the wait queue from non-empty to empty and at no other step, and the
\* slot sees the entry dequeued last already admitted and displayed.
C6_DrainNotification ==
    /\ [][ (timer_wait_q # << >> /\ timer_wait_q' = << >>)
              <=> Len(emptiedLog') = Len(emptiedLog) + 1 ]_vars
    /\ [][ \/ emptiedLog' = emptiedLog
           \/ /\ Len(emptiedLog') = Len(emptiedLog) + 1
              /\ SubSeq(emptiedLog', 1, Len(emptiedLog)) = emptiedLog ]_vars
    /\ [](\A k \in DOMAIN emptiedLog :
             /\ emptiedLog[k].depth = 0
             /\ emptiedLog[k].admitted \in DOMAIN admitLog
             /\ admitLog[emptiedLog[k].admitted].via = "drain"
             /\ admitLog[emptiedLog[k].admitted].msg = emptiedLog[k].text)

\* two messages waited behind a timed one; one signal, at the second drain
C6_Witness ==
    /\ Len(admitLog) = 3
    /\ admitLog[1].timeout > 0
    /\ Len(Drained) = 2
    /\ Len(emptiedLog) = 1
    /\ emptiedLog[1].admitted = 3

----------------------------------------------------------------------------
\* the step only appends the submitted message to the wait queue
OnlyEnqueues ==
    /\ UNCHANGED << bufferd_msgs, displayed_msg_idx, widget >>
    /\ Len(timer_wait_q') = Len(timer_wait_q) + 1
    /\ SubSeq(timer_wait_q', 1, Len(timer_wait_q)) = timer_wait_q
    /\ Last(timer_wait_q').msg = Pad(submitted')

\* the step admits and displays the submitted message
AdmitsAtOnce ==
    /\ Admits
    /\ widget' = [text |-> Pad(submitted'), site |-> "admit"]
    /\ Last(bufferd_msgs').msg = Pad(submitted')

\* the displayed message was put there by an admission and a one-shot timer
\* started for it is pending
ActiveAdmitted ==
    /\ widget.site = "admit"
    /\ \E i \in DOMAIN singleShots : singleShots[i].owner = widget.text

\* C7 (as claimed): while an admitted message is displayed whose timer
\* (timed expiry or zero-timeout) is pending, showMessage() only appends to
\* the wait queue; buffer, cursor and display are unchanged.
C7_ActiveEnqueues ==
    [][ (Submits /\ ActiveAdmitted) => OnlyEnqueues ]_vars

\* C7 (amended): while a message is displayed and the timer handle is set,
\* showMessage() only appends to the wait queue; while a message is
\* displayed with the timer handle unset and nothing waits, as for a
\* zero-timeout message, showMessage() admits the new message at once.
C7_TimerSetEnqueues ==
    /\ [][ (Submits /\ widget # NoWidget /\ timer) => OnlyEnqueues ]_vars
    /\ [][ (Submits /\ widget # NoWidget /\ ~timer /\ timer_wait_q = << >>)
              => AdmitsAtOnce ]_vars

\* a second message was submitted while the first, timed, was displayed
C7_Witness ==
    /\ submitted = 2
    /\ Len(admitLog) = 1
    /\ timer
    /\ widget = [text |-> Pad(1), site |-> "admit"]
    /\ Len(timer_wait_q) = 1
    /\ timer_wait_q[1].msg = Pad(2)

----------------------------------------------------------------------------
\* C8: showMessage() called while nothing is displayed and nothing waits
\* admits and displays the message in that step, starts a one-shot timer
\* for it and does not put it on the wait queue.
C8_IdleSubmitAdmits ==
    [][ (Submits /\ widget = NoWidget /\ timer_wait_q = << >>) =>
           /\ AdmitsAtOnce
           /\ timer_wait_q' = << >>
           /\ Len(singleShots') = Len(singleShots) + 1
           /\ Last(singleShots').owner = Pad(submitted') ]_vars

----------------------------------------------------------------------------
\* message number n is on the wait queue
Waiting(n) == \E k \in DOMAIN timer_wait_q : timer_wait_q[k].msg = Pad(n)

\* message number n has been admitted from the wait queue
WasDrained(n) == \E k \in DOMAIN Drained : Drained[k].msg = Pad(n)

----------------------------------------------------------------------------
\* the one-shot timer i fires
Fired(i) ==
    /\ singleShots[i].remaining = 0
    /\ \/ /\ timer_wait_q = << >>
          /\ singleShots' = RemoveAt(singleShots, i)
       \/ /\ timer_wait_q # << >>
          /\ timer_wait_q' = Tail(timer_wait_q)
          /\ Len(singleShots') = Len(singleShots)
          /\ SubSeq(singleShots', 1, Len(singleShots) - 1)
                = RemoveAt(singleShots, i)

\* message number n, submitted with a timeout, is displayed by an admission
DisplayedTimed(n) ==
    /\ widget = [text |-> Pad(n), site |-> "admit"]
    /\ \E k \in DOMAIN admitLog :
          admitLog[k].msg = Pad(n) /\ admitLog[k].timeout > 0

\* C10: when the expiry timer of a timed message fires, the oldest waiting
\* entry is displayed instead or, if nothing waits, the display is cleared;
\* and while the timers keep firing every timed message displayed by an
\* admission is at some later time no longer displayed.
C10_TimedExpires ==
    /\ [][ \A i \in DOMAIN singleShots :
             (Fired(i) /\ singleShots[i].timed_msg) =>
                /\ widget'.text # singleShots[i].owner
                /\ IF timer_wait_q = << >>
                   THEN widget' = NoWidget
                   ELSE widget' = [text |-> Head(timer_wait_q).msg,
                                   site |-> "admit"] ]_vars
    /\ \A n \in 1..MaxLiveSubmits : DisplayedTimed(n) ~> ~DisplayedTimed(n)

\* the only message, a timed one, is gone from the display after its timer
\* fired
C10_Witness ==
    /\ submitted = 1
    /\ Len(admitLog) = 1
    /\ admitLog[1].timeout > 0
    /\ now = admitLog[1].timeout
    /\ singleShots = << >>
    /\ Len(bufferd_msgs) = 1
    /\ ~timer
    /\ widget = NoWidget

----------------------------------------------------------------------------
(* C11 *)

\* C11: in every reachable state the cursor lies in -1..len(buffer)-1,
\* also after an admission that throws the oldest entry away. (Violated:
\* such an admission leaves the length alone and still moves the cursor up.)
C11_CursorInRange ==
    /\ -1 <= displayed_msg_idx
    /\ displayed_msg_idx <= Len(bufferd_msgs) - 1

----------------------------------------------------------------------------
(* C12 *)

\* C12: on a non-empty buffer with a message displayed, Up from cursor 0
\* goes to len-1 and from any other cursor goes one up; Down from cursor
\* len-1 goes to 0 and from any other cursor goes one down.
C12_SingleStepWraps ==
    [][ /\ (Key("Up") /\ bufferd_msgs # << >> /\ widget # NoWidget) =>
              displayed_msg_idx' = IF displayed_msg_idx = 0
                                   THEN Len(bufferd_msgs) - 1
                                   ELSE displayed_msg_idx - 1
        /\ (Key("Down") /\ bufferd_msgs # << >> /\ widget # NoWidget) =>
              displayed_msg_idx' = IF displayed_msg_idx = Len(bufferd_msgs) - 1
                                   THEN 0
                                   ELSE displayed_msg_idx + 1 ]_vars

\* a buffer of three with the middle entry displayed by the keyboard: a
\* single step reached it, and a step either way from it does not wrap
C12_Witness ==
    /\ Len(bufferd_msgs) = 3
    /\ displayed_msg_idx = 1
    /\ widget = [text |-> bufferd_msgs[2].msg, site |-> "browse"]

----------------------------------------------------------------------------
(* C13 *)

\* C13: on a non-empty buffer PageUp from a cursor strictly between 0 and
\* the page size goes to 0, PageDown from a cursor strictly between
\* len-1-page size and len-1 goes to len-1; PageUp moves the cursor down
\* the buffer only from cursor 0, PageDown moves it up the buffer only from
\* cursor len-1.
C13_PageClamps ==
    [][ /\ (Key("PageUp") /\ bufferd_msgs # << >>) =>
              /\ (0 < displayed_msg_idx
                    /\ displayed_msg_idx < DEFAULT_PAGE_SIZE)
                  => displayed_msg_idx' = 0
              /\ displayed_msg_idx' > displayed_msg_idx
                  => displayed_msg_idx = 0
        /\ (Key("PageDown") /\ bufferd_msgs # << >>) =>
              /\ (Len(bufferd_msgs) - 1 - DEFAULT_PAGE_SIZE < displayed_msg_idx
                    /\ displayed_msg_idx < Len(bufferd_msgs) - 1)
                  => displayed_msg_idx' = Len(bufferd_msgs) - 1
              /\ displayed_msg_idx' < displayed_msg_idx
                  => displayed_msg_idx = Len(bufferd_msgs) - 1 ]_vars

\* a buffer longer than a page in which the keyboard put the cursor on the
\* first entry: PageUp from entry 2..10 clamps to it
C13_Witness ==
    /\ Len(bufferd_msgs) = DEFAULT_PAGE_SIZE + 2
    /\ displayed_msg_idx = 0
    /\ widget = [text |-> bufferd_msgs[1].msg, site |-> "browse"]

----------------------------------------------------------------------------
(* C14 *)

\* C14: on a non-empty buffer PageUp from cursor 0 goes to len-1 and
\* PageDown from cursor len-1 goes to 0, whatever the clamp rules say.
C14_PageWraps ==
    [][ /\ (Key("PageUp") /\ bufferd_msgs # << >> /\ displayed_msg_idx = 0)
              => displayed_msg_idx' = Len(bufferd_msgs) - 1
        /\ (Key("PageDown") /\ bufferd_msgs # << >>
              /\ displayed_msg_idx = Len(bufferd_msgs) - 1)
              => displayed_msg_idx' = 0 ]_vars

\* a buffer longer than a page in which the keyboard put the cursor on the
\* last entry: PageUp from the first entry wraps to it
C14_Witness ==
    /\ Len(bufferd_msgs) = DEFAULT_PAGE_SIZE + 2
    /\ displayed_msg_idx = Len(bufferd_msgs) - 1
    /\ widget = [text |-> bufferd_msgs[Len(bufferd_msgs)].msg,
                 site |-> "browse"]

----------------------------------------------------------------------------
(* C15 *)

\* C15: no key of the keyboard raises an error, whether the buffer is empty
\* or the cursor is outside 0..len-1. (Violated: delete-current pops at the
\* cursor without a test.)
C15_NoFault == ~fault

----------------------------------------------------------------------------
(* C16 *)

\* the bar as delete-all leaves it
Cleared ==
    /\ bufferd_msgs = << >>
    /\ displayed_msg_idx = -1
    /\ widget = NoWidget

\* C16: delete-all empties the buffer, sets the cursor to -1 and clears the
\* display, and changes neither the wait queue, the timer handle nor a
\* pending timer; the message at the head of the wait queue at that moment
\* is admitted from the queue later, when a pending timer fires.
C16_DeleteAllFrame ==
    /\ [][ DeleteAll =>
             /\ Cleared'
             /\ timer_wait_q' = timer_wait_q
             /\ singleShots' = singleShots
             /\ timer' = timer
             /\ timer_progressbar_update' = timer_progressbar_update ]_vars
    /\ \A n \in 1..MaxLiveSubmits :
          (/\ Cleared
           /\ singleShots # << >>
           /\ timer_wait_q # << >>
           /\ Head(timer_wait_q).msg = Pad(n)) ~> WasDrained(n)

\* delete-all was pressed while a timed message was displayed and another
\* message was waiting
C16_Witness ==
    /\ Cleared
    /\ timer
    /\ Len(singleShots) = 1
    /\ singleShots[1].timed_msg
    /\ Len(timer_wait_q) = 1
    /\ Len(admitLog) = 1

----------------------------------------------------------------------------
(* C17 *)

\* C17: immediately after delete-all the cursor is -1 and the wait queue
\* is empty. (Violated: the wait queue is not touched.)
C17_DeleteAllResetsQueue ==
    [][ DeleteAll =>
          /\ displayed_msg_idx' = -1
          /\ timer_wait_q' = << >> ]_vars

\* C17, amended: immediately after delete-all the cursor is -1 and the wait
\* queue holds what it held before.
C17_DeleteAllKeepsQueue ==
    [][ DeleteAll =>
          /\ displayed_msg_idx' = -1
          /\ timer_wait_q' = timer_wait_q ]_vars

\* delete-all was pressed with two messages buffered and a third waiting
C17_Witness ==
    /\ displayed_msg_idx = -1
    /\ bufferd_msgs = << >>
    /\ Len(admitLog) = 2
    /\ Len(timer_wait_q) = 1
    /\ fault = FALSE

----------------------------------------------------------------------------
(* C18 *)

\* C18: in every reachable state the cursor is -1 exactly when the buffer
\* is empty.
C18_CursorMinusOneIffEmpty ==
    (displayed_msg_idx = -1) <=> (bufferd_msgs = << >>)

\* delete-current removed the only buffered entry (its text is still on
\* display): the buffer is empty again and the cursor is back at -1
C18_Witness ==
    /\ bufferd_msgs = << >>
    /\ displayed_msg_idx = -1
    /\ Len(admitLog) = 1
    /\ widget.site = "admit"

----------------------------------------------------------------------------
(* C19 *)

\* C19: in every reachable state a cursor of -1 implies that no message
\* widget is shown. (Violated: delete-current of the only entry resets the
\* cursor and leaves the widget.)
C19_NothingShownAtMinusOne ==
    (displayed_msg_idx = -1) => (widget = NoWidget)

----------------------------------------------------------------------------
(* C20 *)

\* C20: the capacity used for eviction is max(msg_buffer_size,
\* DEFAULT_BUFFER_SIZE): an admission throws the oldest entry away only
\* when the buffer holds at least that many entries. (Violated: the
\* msg_buffer_size of the constructor is used as it is.)
C20_CapacityFloor ==
    [][ (Admits /\ Len(bufferd_msgs') <= Len(bufferd_msgs)) =>
          Len(bufferd_msgs) >= IF BufferSize > DEFAULT_BUFFER_SIZE
                               THEN BufferSize
                               ELSE DEFAULT_BUFFER_SIZE ]_vars

----------------------------------------------------------------------------
(* C21 *)

\* C21: a navigation key (Up, Down, PageUp, PageDown, Home, End) changes
\* neither the buffer, the wait queue, the pending timers, the timer
\* handle nor the progress timer, whatever entry it displays: a step
\* leaves them all unchanged or is not the step of a navigation key.
C21_BrowsingStartsNoTimer ==
    [][ \/ /\ bufferd_msgs' = bufferd_msgs
           /\ timer_wait_q' = timer_wait_q
           /\ singleShots' = singleShots
           /\ timer' = timer
           /\ timer_progressbar_update' = timer_progressbar_update
           /\ now' = now
        \/ ~KeyMove ]_vars

\* a key displayed an entry that has a timeout, after every timer had
\* fired: no timer is pending for it
C21_Witness ==
    /\ widget.site = "browse"
    /\ \E k \in DOMAIN bufferd_msgs :
          /\ k = displayed_msg_idx + 1
          /\ bufferd_msgs[k].msg = widget.text
          /\ bufferd_msgs[k].timeout > 0
    /\ singleShots = << >>

----------------------------------------------------------------------------
(* C24 *)

\* the one-shot timer started for message text is pending
OwnTimerPending(shots, text) ==
    \E i \in DOMAIN shots : shots[i].timed_msg /\ shots[i].owner = text

\* C24: with showMessage() calls and timer firings only, while the timer
\* started for the displayed message (timeout > 0) is pending and does not
\* fire, the display does not change and nothing is admitted. (Violated:
\* the timer of an earlier zero-timeout message drains the wait queue.)
C24_DisplayedUntilOwnTimer ==
    [][ (/\ widget.site = "admit"
         /\ OwnTimerPending(singleShots, widget.text)
         /\ OwnTimerPending(singleShots', widget.text)) =>
          /\ widget' = widget
          /\ ~Admits ]_vars

----------------------------------------------------------------------------
(* C25 *)

\* C25: no message is admitted to the buffer twice, and no message that
\* has been admitted is on the wait queue. (Violated: a showMessage() call
\* with the timer handle set and nothing displayed does both.)
C25_AdmittedOnce ==
    /\ \A i, j \in DOMAIN admitLog :
          admitLog[i].msg = admitLog[j].msg => i = j
    /\ \A k \in DOMAIN timer_wait_q : \A i \in DOMAIN admitLog :
          timer_wait_q[k].msg # admitLog[i].msg

----------------------------------------------------------------------------
(* C26 *)

\* C26: in every reachable state (a state between two handlers) a
\* non-empty wait queue implies that a one-shot timer is pending.
C26_QueueHasTimer ==
    (timer_wait_q # << >>) => (singleShots # << >>)

\* a message waits while the timer handle is None and the only pending
\* timer is the one of a zero-timeout message
C26_Witness ==
    /\ timer_wait_q # << >>
    /\ ~timer
    /\ Len(singleShots) = 1
    /\ ~singleShots[1].timed_msg

----------------------------------------------------------------------------
(* C27 *)

\* a message put on display by an admission is displayed
AdmittedDisplayed == widget.site = "admit"

\* C27: in every reachable state a one-shot timer is pending if and only
\* if a message displayed by an admission is on display. (Violated both
\* ways: a zero-timeout message outlives its timer, and a timer outlives a
\* display that delete-all or clearMessage() cleared.)
C27_TimerIffDisplayed ==
    (singleShots # << >>) <=> AdmittedDisplayed

\* C27, amended: in every reachable state a message with a timeout that
\* is on display by admission has a one-shot timer pending, and the timer
\* handle is set only while a one-shot timer of a message with a timeout
\* is pending.
C27_TimedDisplayedHasTimer ==
    /\ (AdmittedDisplayed /\ Last(admitLog).timeout > 0)
          => (/\ Last(admitLog).msg = widget.text
              /\ singleShots # << >>)
    /\ timer => \E i \in DOMAIN singleShots : singleShots[i].timed_msg

\* a message with a timeout is on display with the timer handle None: the
\* timer of an earlier zero-timeout message has fired, its own is pending
C27_Witness ==
    /\ AdmittedDisplayed
    /\ Last(admitLog).timeout > 0
    /\ ~timer
    /\ Len(singleShots) = 1
    /\ singleShots[1].owner = widget.text

----------------------------------------------------------------------------
(* C28 *)

\* the number of the message with this text
TextNumber(msg) == msg[2]

\* C28: a showMessage() call admits its message only when the wait queue
\* is empty; with a non-empty wait queue it only puts the message at the
\* back of the queue, whatever is displayed and whether the timer handle
\* is set; and every message admitted for the first time was submitted
\* after all the messages admitted before it.
C28_AdmitsOnlyOnEmptyQueue ==
    [][ /\ (Submits /\ Admits) => timer_wait_q = << >>
        /\ (Submits /\ timer_wait_q # << >>) =>
              /\ ~Admits
              /\ Len(timer_wait_q') = Len(timer_wait_q) + 1
              /\ SubSeq(timer_wait_q', 1, Len(timer_wait_q)) = timer_wait_q
              /\ TextNumber(Last(timer_wait_q').msg) = submitted'
              /\ widget' = widget
              /\ bufferd_msgs' = bufferd_msgs
              /\ singleShots' = singleShots
        /\ Admits =>
              \/ \E i \in DOMAIN admitLog :
                    admitLog[i].msg = Last(admitLog').msg
              \/ \A i \in DOMAIN admitLog :
                    TextNumber(admitLog[i].msg)
                        < TextNumber(Last(admitLog').msg) ]_vars

\* a message was put on the wait queue behind another although nothing is
\* displayed: clearMessage() emptied the display in between
C28_Witness ==
    /\ widget = NoWidget
    /\ Len(timer_wait_q) = 2
    /\ Len(admitLog) = 1
    /\ bufferd_msgs # << >>

----------------------------------------------------------------------------
(* C29 *)

\* C29: a timer firing with a non-empty wait queue takes exactly the
\* oldest entry off the queue, buffers and displays it and starts a
\* one-shot timer for it (of its timeout, or of 1500 ms without timeout);
\* a timer firing with an empty wait queue admits nothing and changes
\* neither the buffer nor the cursor.
C29_FiringDrainsOne ==
    [][ /\ (TimerFired /\ timer_wait_q # << >>) =>
              LET e == Head(timer_wait_q)
              IN /\ timer_wait_q' = Tail(timer_wait_q)
                 /\ Len(admitLog') = Len(admitLog) + 1
                 /\ Last(admitLog') =
                        [msg |-> e.msg, timeout |-> e.timeout, via |-> "drain"]
                 /\ Last(bufferd_msgs').msg = e.msg
                 /\ widget' = [text |-> e.msg, site |-> "admit"]
                 /\ Len(singleShots') = Len(singleShots)
                 /\ Last(singleShots') =
                        IF e.timeout > 0
                        THEN [timed_msg |-> TRUE, remaining |-> e.timeout,
                              duration |-> e.timeout, owner |-> e.msg]
                        ELSE [timed_msg |-> FALSE,
                              remaining |-> ZERO_TIMEOUT_MS,
                              duration |-> ZERO_TIMEOUT_MS, owner |-> e.msg]
                 /\ timer' = (e.timeout > 0)
        /\ (TimerFired /\ timer_wait_q = << >>) =>
              /\ admitLog' = admitLog
              /\ bufferd_msgs' = bufferd_msgs
              /\ displayed_msg_idx' = displayed_msg_idx
              /\ timer_wait_q' = << >>
              /\ Len(singleShots') = Len(singleShots) - 1 ]_vars

\* a timer fired with two messages waiting: the older one was admitted
\* from the queue and has its timer, the newer one still waits
C29_Witness ==
    /\ Len(Drained) = 1
    /\ Len(timer_wait_q) = 1
    /\ widget = [text |-> Drained[1].msg, site |-> "admit"]
    /\ TextNumber(Drained[1].msg) < TextNumber(timer_wait_q[1].msg)
    /\ OwnTimerPending(singleShots, Drained[1].msg)

----------------------------------------------------------------------------
(* C30 *)

\* C30: every admission starts the timers of the admitted message: with a
\* timeout above 2000 ms the progress timer and a one-shot timer of the
\* timeout, with a timeout of 1..2000 ms the one-shot timer alone, without
\* timeout a one-shot timer of 1500 ms alone. (Violated: an admission made
\* while the timer handle is set starts no timer for a message with a
\* timeout.)
C30_TimerStartRule ==
    [][ Admits =>
          LET e == Last(admitLog')
          IN /\ singleShots' # << >>
             /\ Last(singleShots') =
                    IF e.timeout > 0
                    THEN [timed_msg |-> TRUE, remaining |-> e.timeout,
                          duration |-> e.timeout, owner |-> e.msg]
                    ELSE [timed_msg |-> FALSE, remaining |-> ZERO_TIMEOUT_MS,
                          duration |-> ZERO_TIMEOUT_MS, owner |-> e.msg]
             /\ e.timeout > PROGRESSBAR_MIN_MS
                    => timer_progressbar_update' = "Active"
             /\ e.timeout <= PROGRESSBAR_MIN_MS
                    => (timer_progressbar_update' = "Active"
                          => timer_progressbar_update = "Active") ]_vars

----------------------------------------------------------------------------
(* C22 *)

\* a step that is a press of an S key
Saves == Len(saveLog') = Len(saveLog) + 1

\* a step that leaves the bar as it is
BarUnchanged ==
    UNCHANGED << bufferd_msgs, displayed_msg_idx, widget, timer, timer_wait_q,
                 timer_progressbar_update, singleShots >>

\* C22: an S key pressed with no save_msg_buffer_dir set raises an error
\* to its caller, writes nothing and leaves buffer, cursor, wait queue,
\* timers and display unchanged. (Violated: nothing is raised.)
C22_ExportDisabledReported ==
    [][ (Saves /\ ~save_msg_buffer_dir) =>
          /\ fault'
          /\ ~Last(saveLog').written
          /\ BarUnchanged ]_vars

\* C22, amended: an S key pressed with no save_msg_buffer_dir set is
\* ignored in silence: nothing is raised, nothing is written and buffer,
\* cursor, wait queue, timers and display are unchanged.
C22_ExportDisabledIgnored ==
    [][ (Saves /\ ~save_msg_buffer_dir) =>
          /\ ~fault'
          /\ ~Last(saveLog').written
          /\ BarUnchanged ]_vars

\* an S key was pressed on a non-empty buffer with no directory set
C22_Witness ==
    /\ ~save_msg_buffer_dir
    /\ saveLog # << >>
    /\ bufferd_msgs # << >>
    /\ ~fault

----------------------------------------------------------------------------
(* C23 *)

\* int(str): the number a sequence of decimal digits stands for
RECURSIVE DigitsValue(_)
DigitsValue(ds) ==
    IF ds = << >> THEN 0
    ELSE 10 * DigitsValue(SubSeq(ds, 1, Len(ds) - 1)) + ds[Len(ds)]

----------------------------------------------------------------------------
(* C31 *)

\* C31: the progress timer is running exactly while the message displayed
\* by the last admission has a timeout above 2000 ms and the one-shot
\* timer started for it is still pending. (Violated: the one-shot timer of
\* an earlier message stops the progress timer of the displayed message.)
C31_ProgressWhileCounting ==
    (timer_progressbar_update = "Active") <=>
        /\ widget.site = "admit"
        /\ Last(admitLog).timeout > PROGRESSBAR_MIN_MS
        /\ OwnTimerPending(singleShots, widget.text)

----------------------------------------------------------------------------
(* C32 *)

\* C32: right after every admission the cursor is the index of the entry
\* just admitted: it is the last index of the buffer and the entry there is
\* the message displayed. (Violated: the cursor is only ever incremented by
\* an admission, from wherever it was.)
C32_CursorOnAdmitted ==
    [][ Admits =>
          /\ displayed_msg_idx' = Len(bufferd_msgs') - 1
          /\ bufferd_msgs'[displayed_msg_idx' + 1].msg = widget'.text ]_vars

----------------------------------------------------------------------------
(* C33 *)

\* C33: an admission puts the new entry last and keeps every other entry in
\* place, except that from a full buffer (one that holds BufferSize entries,
\* or more after browsing, see C2) it may first remove exactly one entry,
\* the one at index 0; from a buffer with fewer than BufferSize entries it
\* removes nothing.
C33_EvictsOnlyWhenFull ==
    [][ Admits =>
          LET len == Len(bufferd_msgs)
          IN /\ Last(bufferd_msgs').msg = Last(admitLog').msg
             /\ \/ /\ Len(bufferd_msgs') = len + 1
                   /\ SubSeq(bufferd_msgs', 1, len) = bufferd_msgs
                \/ /\ len >= BufferSize
                   /\ Len(bufferd_msgs') = len
                   /\ SubSeq(bufferd_msgs', 1, len - 1) = Tail(bufferd_msgs)
             /\ len < BufferSize => Len(bufferd_msgs') = len + 1 ]_vars

\* one admission went into a buffer with room and removed nothing, the next
\* went into the full buffer and removed the entry at index 0
C33_Witness ==
    /\ Len(admitLog) = BufferSize + 1
    /\ Len(bufferd_msgs) = BufferSize
    /\ \A i \in 1..BufferSize : bufferd_msgs[i].msg = admitLog[i + 1].msg
    /\ displayed_msg_idx = BufferSize
    /\ widget = [text |-> Last(admitLog).msg, site |-> "admit"]

----------------------------------------------------------------------------
(* C34 *)

\* C34: the Up key on a non-empty buffer: with nothing displayed it
\* displays the newest entry, the one at the last index, and leaves the
\* cursor there; with a message displayed it moves the cursor back by one,
\* going round at the ends. (Violated: with nothing displayed the cursor is
\* kept if it is a valid index and set to 0 if it is not; after an
\* admission that evicted, it is not.)
C34_UpKeyGuard ==
    [][ \/ bufferd_msgs = << >>
        \/ LET len == Len(bufferd_msgs)
               back == displayed_msg_idx - 1
           IN IF widget = NoWidget
              THEN /\ displayed_msg_idx' = len - 1
                   /\ widget'.text = Last(bufferd_msgs).msg
              ELSE displayed_msg_idx' =
                       IF back < 0 THEN len - 1
                       ELSE IF back > len - 1 THEN 0 ELSE back
        \/ ~Key("Up") ]_vars

----------------------------------------------------------------------------
(* C35 *)

\* C35: a key of KEY_MOVE pressed on a non-empty buffer, whatever the
\* cursor was (it may be past the last index after an admission that
\* evicted), leaves the cursor a valid index of the buffer and displays the
\* entry at the cursor.  A step that changes the buffer, the wait queue,
\* the pending timers or the clock is not the step of such a key (C21).
C35_NavigationLandsInRange ==
    [][ \/ bufferd_msgs = << >>
        \/ bufferd_msgs' # bufferd_msgs
        \/ timer_wait_q' # timer_wait_q
        \/ singleShots' # singleShots
        \/ now' # now
        \/ /\ displayed_msg_idx' \in 0..(Len(bufferd_msgs') - 1)
           /\ widget' = [text |-> bufferd_msgs'[displayed_msg_idx' + 1].msg,
                         site |-> "browse"]
        \/ ~KeyMove ]_vars

\* a key was pressed right after three admissions at the same instant, the
\* last of which evicted and left the cursor past the last index: the
\* oldest entry is displayed
C35_Witness ==
    /\ Len(admitLog) = BufferSize + 1
    /\ Len(singleShots) = BufferSize + 1
    /\ \A i \in 1..BufferSize : bufferd_msgs[i].msg = admitLog[i + 1].msg
    /\ Len(bufferd_msgs) = BufferSize
    /\ displayed_msg_idx = 0
    /\ widget = [text |-> bufferd_msgs[1].msg, site |-> "browse"]

----------------------------------------------------------------------------
(* C36 *)

\* control-alt-X removed the entry at the cursor, kept the other entries in
\* their order, raised nothing and left the wait queue and the timers alone
DeletedAtCursor ==
    /\ bufferd_msgs' = RemoveAt(bufferd_msgs, displayed_msg_idx + 1)
    /\ ~fault'
    /\ UNCHANGED << timer, timer_wait_q, timer_progressbar_update,
                    singleShots >>

\* C36: control-alt-X with the cursor on a valid index removes exactly the
\* entry at the cursor, keeps the other entries in their order and leaves
\* the wait queue and the timers alone; afterwards the cursor is -1 if the
\* buffer is empty, and else the old cursor clamped to the last index of
\* the shortened buffer. (Violated: after the last entry was deleted the
\* cursor is 0.)
C36_DeleteCurrentClamps ==
    [][ \/ displayed_msg_idx \notin 0..(Len(bufferd_msgs) - 1)
        \/ /\ DeletedAtCursor
           /\ displayed_msg_idx' =
                  IF Len(bufferd_msgs) = 1 THEN -1
                  ELSE IF displayed_msg_idx > Len(bufferd_msgs) - 2
                       THEN Len(bufferd_msgs) - 2
                       ELSE displayed_msg_idx
        \/ ~DeleteCurrent ]_vars

\* C36, amended: as C36, but afterwards the cursor is -1 if the buffer is
\* empty, the old cursor if that is still a valid index, and 0 if the last
\* entry was deleted and others remain; in every case a valid index of a
\* buffer that is not empty.
C36_DeleteCurrentWraps ==
    [][ \/ displayed_msg_idx \notin 0..(Len(bufferd_msgs) - 1)
        \/ /\ DeletedAtCursor
           /\ displayed_msg_idx' =
                  IF Len(bufferd_msgs) = 1 THEN -1
                  ELSE IF displayed_msg_idx > Len(bufferd_msgs) - 2
                       THEN 0
                       ELSE displayed_msg_idx
           /\ bufferd_msgs' # << >> =>
                  displayed_msg_idx' \in 0..(Len(bufferd_msgs') - 1)
        \/ ~DeleteCurrent ]_vars

\* the last of three entries was deleted while its timer was pending: the
\* cursor is on the first of the two entries that remain
C36_Witness ==
    /\ Len(admitLog) = 3
    /\ Len(bufferd_msgs) = 2
    /\ \A i \in 1..2 : bufferd_msgs[i].msg = admitLog[i].msg
    /\ displayed_msg_idx = 0
    /\ widget = [text |-> admitLog[1].msg, site |-> "browse"]
    /\ OwnTimerPending(singleShots, admitLog[3].msg)

----------------------------------------------------------------------------
(* C37 *)

\* C37: on a non-empty buffer Key_Home puts the cursor on index 0 and
\* Key_End on the last index, and each displays the entry at the new
\* cursor; on an empty buffer both find and leave the cursor at -1 and
\* leave the display as it is.
C37_HomeEnd ==
    [][ /\ \/ bufferd_msgs = << >>
           \/ /\ displayed_msg_idx' = 0
              /\ widget' = [text |-> bufferd_msgs[1].msg, site |-> "browse"]
              /\ bufferd_msgs' = bufferd_msgs
           \/ ~Key("Home")
        /\ \/ bufferd_msgs = << >>
           \/ /\ displayed_msg_idx' = Len(bufferd_msgs) - 1
              /\ widget' = [text |-> Last(bufferd_msgs).msg,
                            site |-> "browse"]
              /\ bufferd_msgs' = bufferd_msgs
           \/ ~Key("End")
        /\ \/ bufferd_msgs # << >>
           \/ /\ displayed_msg_idx = -1
              /\ displayed_msg_idx' = -1
              /\ widget' = widget
              /\ bufferd_msgs' = << >>
           \/ ~(Key("Home") \/ Key("End")) ]_vars

\* a key has displayed the first entry of the longest buffer
C37_Witness ==
    /\ Len(bufferd_msgs) = MaxNavLen
    /\ displayed_msg_idx = 0
    /\ widget = [text |-> bufferd_msgs[1].msg, site |-> "browse"]
    /\ bufferd_msgs[1].msg = Pad(1)

----------------------------------------------------------------------------
(* C38 *)

\* the (msg, timeout) pairs of a sequence of records
Unstamped(seq) ==
    [i \in DOMAIN seq |-> [msg |-> seq[i].msg, timeout |-> seq[i].timeout]]

\* a is what is left of b when some of its elements are taken out
RECURSIVE IsSubSeq(_, _)
IsSubSeq(a, b) ==
    IF a = << >> THEN TRUE
    ELSE IF b = << >> THEN FALSE
    ELSE IF Head(a) = Head(b) THEN IsSubSeq(Tail(a), Tail(b))
    ELSE IsSubSeq(a, Tail(b))

\* C38: the buffer always holds its entries in the order of their
\* admission, with timestamps that never decrease from one index to the
\* next; an entry's timestamp is the time of the admission (for an entry
\* that waited on the queue, the time it was taken off), and no other step
\* adds an entry or changes a timestamp.
C38_BufferInAdmissionOrder ==
    /\ [](/\ \A i, j \in DOMAIN bufferd_msgs :
                i < j => bufferd_msgs[i].timestamp <= bufferd_msgs[j].timestamp
          /\ IsSubSeq(Unstamped(bufferd_msgs), Unstamped(admitLog)))
    /\ [][ /\ Admits =>
                /\ now' = now
                /\ Last(bufferd_msgs') =
                       [msg |-> Last(admitLog').msg,
                        timeout |-> Last(admitLog').timeout,
                        timestamp |-> Strftime(now)]
           /\ ~Admits => IsSubSeq(bufferd_msgs', bufferd_msgs) ]_vars

\* two messages waited behind a timed one; the first was taken off the
\* queue when its timer fired and the second, which was on the queue by
\* then, 1500 ms later: their timestamps are these two times
C38_Witness ==
    /\ Len(admitLog) = 3
    /\ Len(Drained) = 2
    /\ admitLog[1].timeout > 0
    /\ Drained[1].timeout = 0
    /\ now = admitLog[1].timeout + ZERO_TIMEOUT_MS
    /\ Len(bufferd_msgs) >= 2
    /\ Last(bufferd_msgs).msg = Drained[2].msg
    /\ Last(bufferd_msgs).timestamp = Strftime(now)
    /\ bufferd_msgs[Len(bufferd_msgs) - 1].msg = Drained[1].msg
    /\ bufferd_msgs[Len(bufferd_msgs) - 1].timestamp =
           Strftime(admitLog[1].timeout)
    /\ Strftime(admitLog[1].timeout) < Strftime(now)

====
